---- MODULE Spec2Model ----
(***************************************************************************)
(* A model of the UAV mission verification core:                           *)
(*   src/src/flight_plan.py          Waypoint, FlightPlan                  *)
(*   src/src/conflict_detector.py    Conflict, ConflictDetector            *)
(*   src/src/verification_service.py MissionVerificationService            *)
(*                                                                         *)
(* Numbers.  The program computes in floating point.  The model computes   *)
(* in exact arithmetic: a rational is a pair <<n, d>> in lowest terms with *)
(* d > 0, and a value that comes out of a square root (a distance, a       *)
(* speed, a severity) is a record [a, b, r] standing for a + b * sqrt(r).  *)
(* Comparisons of such values are decided exactly by squaring.  Rounding   *)
(* of the floating-point operations is therefore not modelled.             *)
(*                                                                         *)
(* Units are those of the program: metres and seconds.                     *)
(***************************************************************************)
EXTENDS Integers, Sequences, FiniteSets, TLC

(***************************************************************************)
(* Rational arithmetic.  Intermediate results are handed on as operator    *)
(* arguments rather than named in LET, which keeps TLC's expansion of the  *)
(* definitions small.                                                      *)
(***************************************************************************)
Abs(n) == IF n < 0 THEN -n ELSE n

Sgn(n) == IF n < 0 THEN -1 ELSE IF n = 0 THEN 0 ELSE 1

RECURSIVE GCD(_, _)
GCD(a, b) == IF b = 0 THEN a ELSE GCD(b, a % b)

Reduce(n, d, g) == IF d < 0 THEN <<(-n) \div g, (-d) \div g>> ELSE <<n \div g, d \div g>>

\* The rational n/d in lowest terms, d # 0.
Rat(n, d) == Reduce(n, d, GCD(Abs(n), Abs(d)))

Q(n) == <<n, 1>>

RNeg(p) == <<-p[1], p[2]>>

AddOver(p, q, g) ==
    Rat(p[1] * (q[2] \div g) + q[1] * (p[2] \div g), (p[2] \div g) * q[2])

RAdd(p, q) == AddOver(p, q, GCD(p[2], q[2]))

RSub(p, q) == RAdd(p, RNeg(q))

\* p and q are in lowest terms, so cancelling crosswise leaves lowest terms.
MulOver(p, q, g1, g2) ==
    <<(p[1] \div g1) * (q[1] \div g2), (p[2] \div g2) * (q[2] \div g1)>>

RMul(p, q) == MulOver(p, q, GCD(Abs(p[1]), q[2]), GCD(Abs(q[1]), p[2]))

RInv(q) == IF q[1] < 0 THEN <<-q[2], -q[1]>> ELSE <<q[2], q[1]>>

\* p / q, q # 0
RDiv(p, q) == RMul(p, RInv(q))

CmpOver(p, q, g) == Sgn(p[1] * (q[2] \div g) - q[1] * (p[2] \div g))

\* The sign of p - q.
RCmp(p, q) == CmpOver(p, q, GCD(p[2], q[2]))

RLt(p, q) == RCmp(p, q) < 0
RLe(p, q) == RCmp(p, q) <= 0
RGt(p, q) == RCmp(p, q) > 0
RGe(p, q) == RCmp(p, q) >= 0

\* Python's max(p, q) and min(p, q): the first argument unless the second is
\* strictly larger (smaller).
RMax(p, q) == IF RGt(q, p) THEN q ELSE p
RMin(p, q) == IF RLt(q, p) THEN q ELSE p
RAbs(p) == <<Abs(p[1]), p[2]>>

\* int(np.ceil(p))
RCeil(p) == -((-p[1]) \div p[2])

(***************************************************************************)
(* Values a + b * sqrt(r), with a, b, r rational and r >= 0                *)
(***************************************************************************)
Real(q) == [a |-> q, b |-> Q(0), r |-> Q(0)]

\* np.sqrt(q), q >= 0
Sqrt(q) == [a |-> Q(0), b |-> Q(1), r |-> q]

\* float('inf')
Inf == [inf |-> TRUE]
IsInf(x) == "inf" \in DOMAIN x

\* x / q and q - x, for a rational q
RealDivRat(x, q) == [a |-> RDiv(x.a, q), b |-> RDiv(x.b, q), r |-> x.r]
RatMinusReal(q, x) == [a |-> RSub(q, x.a), b |-> RNeg(x.b), r |-> x.r]

\* The sign of B * sqrt(r).
SignRoot(B, r) == IF r[1] = 0 THEN 0 ELSE Sgn(B[1])

\* The sign of u + v, given the sign sU of u, the sign sV of v, and the sign c
\* of |u| - |v|.
SignOfSum(sU, sV, c) ==
    IF sV = 0 THEN sU
    ELSE IF sU = 0 \/ sU = sV THEN sV
    ELSE IF c > 0 THEN sU ELSE IF c < 0 THEN sV ELSE 0

\* B^2 * r
SqTimes(B, r) == RMul(RMul(B, B), r)

\* The sign of A + B * sqrt(r).
Sign1(A, B, r) ==
    SignOfSum(Sgn(A[1]), SignRoot(B, r), RCmp(RMul(A, A), SqTimes(B, r)))

\* The sign of B * sqrt(r) + C * sqrt(s).
Sign2(B, r, C, s) ==
    SignOfSum(SignRoot(B, r), SignRoot(C, s), RCmp(SqTimes(B, r), SqTimes(C, s)))

\* The sign of A + B * sqrt(r) + C * sqrt(s); with X = B sqrt(r) + C sqrt(s),
\* A^2 - X^2 = (A^2 - B^2 r - C^2 s) - 2 B C sqrt(r s).
Sign3(A, B, r, C, s) ==
    SignOfSum(Sgn(A[1]), Sign2(B, r, C, s),
              Sign1(RSub(RMul(A, A), RAdd(SqTimes(B, r), SqTimes(C, s))),
                    RMul(Q(-2), RMul(B, C)), RMul(r, s)))

\* The sign of x - y.
RealCmp(x, y) == Sign3(RSub(x.a, y.a), x.b, x.r, RNeg(y.b), y.r)

RealLt(x, y) == IF IsInf(x) THEN FALSE ELSE IF IsInf(y) THEN TRUE ELSE RealCmp(x, y) < 0
RealGt(x, y) == RealLt(y, x)
RealGe(x, y) == ~RealLt(x, y)
RealLe(x, y) == ~RealLt(y, x)
RealEq(x, y) == ~RealLt(x, y) /\ ~RealLt(y, x)

\* Python's max(x, y) and min(x, y) again.
RealMax(x, y) == IF RealGt(y, x) THEN y ELSE x
RealMin(x, y) == IF RealLt(y, x) THEN y ELSE x

\* The integer square root of a perfect square n >= 0.
ISqrt(n) == CHOOSE k \in 0..n : k * k = n

\* The rational value of x, for x whose radicand is the square of a rational.
ToRat(x) ==
    IF x.b[1] = 0 \/ x.r[1] = 0 THEN x.a
    ELSE RAdd(x.a, RMul(x.b, <<ISqrt(x.r[1]), ISqrt(x.r[2])>>))

(***************************************************************************)
(* Optional values: None, or Some(v).                                      *)
(***************************************************************************)
\* The element of a singleton: Only({e(v) : v \in {d}}) is e(d), with d
\* evaluated once, before e.
Only(S) == CHOOSE x \in S : TRUE

None == <<>>
Some(v) == <<v>>
IsNone(o) == o = <<>>
The(o) == o[1]

\* A dict is a function on the set of its keys.
EmptyDict == [key \in {} |-> key]

\* d[key] = value that leaves the entry of a key the dict already holds.
Put_keep_first(d, key, value) ==
    [x \in DOMAIN d \cup {key} |-> IF x \in DOMAIN d THEN d[x] ELSE value]

\* d[key] = value
Put(d, key, value) ==
    [x \in DOMAIN d \cup {key} |-> IF x = key THEN value ELSE d[x]]

\* The tolerance 1e-6 of _check_pair and _get_effective_time_step.
Eps == <<1, 1000000>>

(***************************************************************************)
(* flight_plan.py                                                          *)
(* A Waypoint is a record [x, y, z, time] of rationals; a FlightPlan is a  *)
(* record [uav_id, waypoints, speed, priority].  start_time (a wall-clock  *)
(* timestamp no computation reads) is left out.                            *)
(***************************************************************************)
Waypoint(x, y, z, t) == [x |-> x, y |-> y, z |-> z, time |-> t]

\* dx**2 + dy**2 + dz**2
SumSquares(dx, dy, dz) == RAdd(RAdd(RMul(dx, dx), RMul(dy, dy)), RMul(dz, dz))

\* Waypoint.distance_to
distance_to(wp, other) ==
    Sqrt(SumSquares(RSub(wp.x, other.x), RSub(wp.y, other.y), RSub(wp.z, other.z)))

\* __post_init__ that rejects a speed below 0 only.
post_init_speed_below_zero(waypoints, speed, priority) ==
    IF Len(waypoints) < 2 THEN Some("Flight plan must have at least 2 waypoints")
    ELSE IF RLt(speed, Q(0)) THEN Some("Speed must be positive")
    ELSE IF priority < 1 THEN Some("Priority must be at least 1")
    ELSE None

\* FlightPlan.__post_init__: the error it raises, or None.
post_init(waypoints, speed, priority) ==
    IF Len(waypoints) < 2 THEN Some("Flight plan must have at least 2 waypoints")
    ELSE IF RLe(speed, Q(0)) THEN Some("Speed must be positive")
    ELSE IF priority < 1 THEN Some("Priority must be at least 1")
    ELSE None

\* FlightPlan(uav_id, waypoints, speed, priority): the constructed object, or
\* the ValueError raised by __post_init__ (and then no object).
FlightPlan(uav_id, waypoints, speed, priority) ==
    IF IsNone(post_init(waypoints, speed, priority))
    THEN [uav_id |-> uav_id, waypoints |-> waypoints, speed |-> speed,
          priority |-> priority]
    ELSE [error |-> The(post_init(waypoints, speed, priority))]

IsError(v) == "error" \in DOMAIN v

\* a + ratio * (b - a)
Lerp(a, b, ratio) == RAdd(a, RMul(ratio, RSub(b, a)))

\* The position interpolate_position computes within the segment wp1, wp2.
segment_position(wp1, wp2, t) ==
    IF wp2.time = wp1.time
    THEN <<wp1.x, wp1.y, wp1.z>>
    ELSE <<Lerp(wp1.x, wp2.x, RDiv(RSub(t, wp1.time), RSub(wp2.time, wp1.time))),
           Lerp(wp1.y, wp2.y, RDiv(RSub(t, wp1.time), RSub(wp2.time, wp1.time))),
           Lerp(wp1.z, wp2.z, RDiv(RSub(t, wp1.time), RSub(wp2.time, wp1.time)))>>

RECURSIVE InterpolateFrom(_, _, _)
\* The loop of interpolate_position with segments open at their start.
InterpolateFrom_open_start(wps, t, i) ==
    IF i > Len(wps) - 1 THEN None
    ELSE IF RLt(wps[i].time, t) /\ RLe(t, wps[i + 1].time)
         THEN Some(segment_position(wps[i], wps[i + 1], t))
         ELSE InterpolateFrom(wps, t, i + 1)

\* The loop of interpolate_position from segment i on.
InterpolateFrom(wps, t, i) ==
    IF i > Len(wps) - 1 THEN None
    ELSE IF RLe(wps[i].time, t) /\ RLe(t, wps[i + 1].time)
         THEN Some(segment_position(wps[i], wps[i + 1], t))
         ELSE InterpolateFrom(wps, t, i + 1)

\* FlightPlan.interpolate_position
interpolate_position(flight, t) ==
    IF \/ RLt(t, flight.waypoints[1].time)
       \/ RGt(t, flight.waypoints[Len(flight.waypoints)].time)
    THEN None
    ELSE InterpolateFrom(flight.waypoints, t, 1)

(***************************************************************************)
(* conflict_detector.py                                                    *)
(***************************************************************************)
\* ConflictDetector.__init__
ConflictDetector(safety_distance, time_step, time_window, vertical_weight) ==
    [safety_distance |-> safety_distance, time_step |-> time_step,
     time_window |-> time_window, vertical_weight |-> vertical_weight]

\* if segment_speed > max_speed: max_speed = segment_speed
faster_of(max_speed, segment_speed) ==
    IF RealGt(segment_speed, max_speed) THEN segment_speed ELSE max_speed

\* The loop of _calculate_max_segment_speed from segment i on.
RECURSIVE MaxSegmentSpeedFrom(_, _, _)
MaxSegmentSpeedFrom(wps, i, max_speed) ==
    IF i > Len(wps) - 1 THEN max_speed
    ELSE IF RLe(RSub(wps[i + 1].time, wps[i].time), Q(0))
         THEN MaxSegmentSpeedFrom(wps, i + 1, max_speed)
         ELSE MaxSegmentSpeedFrom(wps, i + 1,
                  faster_of(max_speed,
                            RealDivRat(distance_to(wps[i], wps[i + 1]),
                                       RSub(wps[i + 1].time, wps[i].time))))

\* ConflictDetector._calculate_max_segment_speed
calculate_max_segment_speed(flight) ==
    MaxSegmentSpeedFrom(flight.waypoints, 1, Real(RMax(flight.speed, Q(0))))

\* relative_speed_of with the first flight's speed taken for both.
relative_speed_of_first(flight1, flight2) ==
    RAdd(ToRat(calculate_max_segment_speed(flight1)),
         ToRat(calculate_max_segment_speed(flight1)))

\* speed1 + speed2
relative_speed_of(flight1, flight2) ==
    RAdd(ToRat(calculate_max_segment_speed(flight1)),
         ToRat(calculate_max_segment_speed(flight2)))

\* effective_step with two samples, not four, per crossing of the safety
\* distance.
effective_step_two_samples(self, base_step, relative_speed) ==
    IF RLe(relative_speed, Eps) THEN base_step
    ELSE RMin(base_step,
              RMax(RDiv(self.safety_distance, RMul(relative_speed, Q(2))),
                   RMul(base_step, <<1, 10>>)))

\* _get_effective_time_step once base_step and relative_speed are known.
effective_step(self, base_step, relative_speed) ==
    IF RLe(relative_speed, Eps) THEN base_step
    ELSE RMin(base_step,
              RMax(RDiv(self.safety_distance, RMul(relative_speed, Q(4))),
                   RMul(base_step, <<1, 10>>)))

\* ConflictDetector._get_effective_time_step
get_effective_time_step(self, flight1, flight2) ==
    effective_step(self, RMax(self.time_step, <<1, 1000>>),
                   relative_speed_of(flight1, flight2))

\* np.linspace(start, stop, num), num >= 2: num evenly spaced samples, the last
\* one set to stop.
linspace(start, stop, num) ==
    [k \in 1..num |-> IF k = num THEN stop
                      ELSE RAdd(start, RMul(Q(k - 1),
                                            RDiv(RSub(stop, start), Q(num - 1))))]

\* sample_count without the "+ 1": max(int(np.ceil(duration / step)), 2)
sample_count_no_extra(duration, step) ==
    IF RCeil(RDiv(duration, step)) > 2 THEN RCeil(RDiv(duration, step)) ELSE 2

\* max(int(np.ceil(duration / step)) + 1, 2)
sample_count(duration, step) ==
    IF RCeil(RDiv(duration, step)) + 1 > 2 THEN RCeil(RDiv(duration, step)) + 1 ELSE 2

\* The samples of a window taken at its two ends only.
window_samples_ends(t_start, t_end, step) == linspace(t_start, t_end, 2)

\* The samples of a window longer than 1e-6 s, taken at this step.
window_samples(t_start, t_end, step) ==
    linspace(t_start, t_end, sample_count(RMax(RSub(t_end, t_start), step), step))

\* The overlap window of _check_pair.
overlap_start(flight1, flight2) ==
    RMax(flight1.waypoints[1].time, flight2.waypoints[1].time)
overlap_end(flight1, flight2) ==
    RMin(flight1.waypoints[Len(flight1.waypoints)].time,
         flight2.waypoints[Len(flight2.waypoints)].time)

\* The sample times of _check_pair over the window t_start, t_end.
sample_times(self, flight1, flight2, t_start, t_end) ==
    IF RLe(RAbs(RSub(t_start, t_end)), Eps)
    THEN <<t_start>>
    ELSE window_samples(t_start, t_end, get_effective_time_step(self, flight1, flight2))

\* The distance between two positions with the vertical difference taken as
\* it is.
weighted_distance_unweighted(self, pos1, pos2) ==
    Sqrt(SumSquares(RSub(pos1[1], pos2[1]), RSub(pos1[2], pos2[2]),
                    RSub(pos1[3], pos2[3])))

\* The weighted distance of _check_pair between two positions.
weighted_distance(self, pos1, pos2) ==
    Sqrt(SumSquares(RSub(pos1[1], pos2[1]), RSub(pos1[2], pos2[2]),
                    RMul(RSub(pos1[3], pos2[3]), self.vertical_weight)))

\* What _check_pair tracks before its first sample.
no_minimum ==
    [min_distance |-> Inf, conflict_time |-> None,
     pos1_at_conflict |-> None, pos2_at_conflict |-> None]

\* track with "<=" in place of "<": a later sample as close as the closest
\* one so far takes its place.
track_latest(acc, t, pos1, pos2, distance) ==
    IF RealLe(distance, acc.min_distance)
    THEN [min_distance |-> distance, conflict_time |-> Some(t),
          pos1_at_conflict |-> pos1, pos2_at_conflict |-> pos2]
    ELSE acc

\* if distance < min_distance: ...
track(acc, t, pos1, pos2, distance) ==
    IF RealLt(distance, acc.min_distance)
    THEN [min_distance |-> distance, conflict_time |-> Some(t),
          pos1_at_conflict |-> pos1, pos2_at_conflict |-> pos2]
    ELSE acc

\* The body of the sampling loop of _check_pair for the sample t.
sample_step(self, acc, t, pos1, pos2) ==
    IF IsNone(pos1) \/ IsNone(pos2) THEN acc
    ELSE track(acc, t, pos1, pos2, weighted_distance(self, The(pos1), The(pos2)))

\* The sampling loop of _check_pair from sample k on; acc holds min_distance,
\* conflict_time, pos1_at_conflict and pos2_at_conflict.
RECURSIVE SampleLoop(_, _, _, _, _, _)
SampleLoop(self, flight1, flight2, times, k, acc) ==
    IF k > Len(times) THEN acc
    ELSE Only({SampleLoop(self, flight1, flight2, times, k + 1, next) :
                  next \in {sample_step(self, acc, times[k],
                                        interpolate_position(flight1, times[k]),
                                        interpolate_position(flight2, times[k]))}})

\* severity_of without the "1.0 -": min_distance / safety_distance, clamped.
severity_of_ratio(self, min_distance) ==
    RealMax(Real(Q(0)),
            RealMin(Real(Q(1)), RealDivRat(min_distance, self.safety_distance)))

\* severity = max(0.0, min(1.0, 1.0 - min_distance / safety_distance))
severity_of(self, min_distance) ==
    RealMax(Real(Q(0)),
            RealMin(Real(Q(1)),
                    RatMinusReal(Q(1), RealDivRat(min_distance, self.safety_distance))))

\* emit with "<=" in place of "<" in the test against safety_distance.
emit_at_or_below(self, flight1, flight2, acc) ==
    IF /\ RealLe(acc.min_distance, Real(self.safety_distance))
       /\ ~IsNone(acc.conflict_time)
    THEN <<[uav1_id |-> flight1.uav_id,
            uav2_id |-> flight2.uav_id,
            time |-> The(acc.conflict_time),
            position1 |-> The(acc.pos1_at_conflict),
            position2 |-> The(acc.pos2_at_conflict),
            distance |-> acc.min_distance,
            severity |-> severity_of(self, acc.min_distance)]>>
    ELSE <<>>

\* The end of _check_pair: the conflict it emits, if any, from what it tracked.
emit(self, flight1, flight2, acc) ==
    IF /\ RealLt(acc.min_distance, Real(self.safety_distance))
       /\ ~IsNone(acc.conflict_time)
    THEN <<[uav1_id |-> flight1.uav_id,
            uav2_id |-> flight2.uav_id,
            time |-> The(acc.conflict_time),
            position1 |-> The(acc.pos1_at_conflict),
            position2 |-> The(acc.pos2_at_conflict),
            distance |-> acc.min_distance,
            severity |-> severity_of(self, acc.min_distance)]>>
    ELSE <<>>

\* check_window without the early return, each drone taken to hold the end of
\* its path outside its time span: the pair is compared at t_start.
held_position(flight, t) ==
    interpolate_position(flight,
        RMax(flight.waypoints[1].time,
             RMin(t, flight.waypoints[Len(flight.waypoints)].time)))

check_window_held(self, flight1, flight2, t_start, t_end) ==
    emit(self, flight1, flight2,
         sample_step(self, no_minimum, t_start,
                     held_position(flight1, t_start), held_position(flight2, t_start)))

\* _check_pair once the overlap window is known.
check_window(self, flight1, flight2, t_start, t_end) ==
    IF RGt(t_start, t_end) /\ RGt(RSub(t_start, t_end), Eps)
    THEN <<>>
    ELSE Only({emit(self, flight1, flight2, acc) :
                  acc \in {SampleLoop(self, flight1, flight2, times, 1, no_minimum) :
                              times \in {sample_times(self, flight1, flight2, t_start, t_end)}}})

\* ConflictDetector._check_pair: the list of conflicts of the pair (empty or
\* one conflict).
check_pair(self, flight1, flight2) ==
    check_window(self, flight1, flight2,
                 overlap_start(flight1, flight2), overlap_end(flight1, flight2))

\* PairLoop with the inner loop over every other flight, not only the later
\* ones.
RECURSIVE PairLoop_every_other(_, _, _, _)
PairLoop_every_other(self, flights, i, j) ==
    IF i > Len(flights) THEN <<>>
    ELSE IF j > Len(flights) THEN PairLoop_every_other(self, flights, i + 1, 1)
    ELSE (IF i = j THEN <<>> ELSE check_pair(self, flights[i], flights[j]))
         \o PairLoop_every_other(self, flights, i, j + 1)

\* The pair loops of find_conflicts from pair (i, j) on.
RECURSIVE PairLoop(_, _, _, _)
PairLoop(self, flights, i, j) ==
    IF i > Len(flights) THEN <<>>
    ELSE IF j > Len(flights) THEN PairLoop(self, flights, i + 1, i + 2)
    ELSE check_pair(self, flights[i], flights[j]) \o PairLoop(self, flights, i, j + 1)

\* InsertByTime for a sort that is not stable: c goes before the conflicts of
\* its own time.
RECURSIVE InsertByTime_before_ties(_, _)
InsertByTime_before_ties(sorted, c) ==
    IF sorted = <<>> THEN <<c>>
    ELSE IF RLt(sorted[Len(sorted)].time, c.time) THEN Append(sorted, c)
    ELSE Append(InsertByTime_before_ties(SubSeq(sorted, 1, Len(sorted) - 1), c),
                sorted[Len(sorted)])

\* list.sort(key=lambda c: c.time): a stable sort by time.
RECURSIVE InsertByTime(_, _)
InsertByTime(sorted, c) ==
    IF sorted = <<>> THEN <<c>>
    ELSE IF RLe(sorted[Len(sorted)].time, c.time) THEN Append(sorted, c)
    ELSE Append(InsertByTime(SubSeq(sorted, 1, Len(sorted) - 1), c),
                sorted[Len(sorted)])

RECURSIVE SortByTimeFrom(_, _, _)
SortByTimeFrom(cs, k, sorted) ==
    IF k > Len(cs) THEN sorted
    ELSE SortByTimeFrom(cs, k + 1, InsertByTime(sorted, cs[k]))

sort_by_time(conflicts) == SortByTimeFrom(conflicts, 1, <<>>)

\* ConflictDetector.find_conflicts
find_conflicts(self, flights) == sort_by_time(PairLoop(self, flights, 1, 2))

\* np.arange(start, stop, step) for step > 0: start, start + step, ..., the
\* values strictly below stop.
arange(start, stop, step) ==
    [k \in 1..(IF RLt(start, stop) THEN RCeil(RDiv(RSub(stop, start), step)) ELSE 0) |->
        RAdd(start, RMul(Q(k - 1), step))]

\* The body of the loop of check_continuous_conflict at the time t, both
\* flights having the positions pos1 and pos2 (None: not flying): TRUE when
\* the loop goes on, FALSE when it returns False.
continuous_step(self, pos1, pos2) ==
    IF IsNone(pos1) \/ IsNone(pos2) THEN FALSE
    ELSE ~RealGe(weighted_distance(self, The(pos1), The(pos2)),
                 Real(self.safety_distance))

\* The loop of check_continuous_conflict from sample k on.
RECURSIVE ContinuousFrom(_, _, _, _, _)
ContinuousFrom(self, flight1, flight2, times, k) ==
    IF k > Len(times) THEN TRUE
    ELSE IF continuous_step(self, interpolate_position(flight1, times[k]),
                            interpolate_position(flight2, times[k]))
         THEN ContinuousFrom(self, flight1, flight2, times, k + 1)
         ELSE FALSE

\* ConflictDetector.check_continuous_conflict
check_continuous_conflict(self, flight1, flight2, start_time, end_time) ==
    ContinuousFrom(self, flight1, flight2,
                   arange(start_time, end_time, self.time_step), 1)

\* ConflictDetector.predict_conflicts
predict_conflicts(self, flights, current_time) ==
    find_conflicts(self, SelectSeq(flights,
                                   LAMBDA flight :
                                       RGt(flight.waypoints[Len(flight.waypoints)].time,
                                           current_time)))

\* flight_map of get_conflict_matrix, from flight k on: the index of each
\* uav_id in the list (indices count from 1).
RECURSIVE FlightMapFrom(_, _, _)
FlightMapFrom(flights, k, flight_map) ==
    IF k > Len(flights) THEN flight_map
    ELSE FlightMapFrom(flights, k + 1, Put(flight_map, flights[k].uav_id, k))

\* matrix[i, j] = True
SetCell(matrix, i, j) == [matrix EXCEPT ![i][j] = TRUE]

\* The loop of get_conflict_matrix over the conflicts from conflict k on.
RECURSIVE MatrixFrom(_, _, _, _)
MatrixFrom(conflicts, flight_map, k, matrix) ==
    IF k > Len(conflicts) THEN matrix
    ELSE MatrixFrom(conflicts, flight_map, k + 1,
                    SetCell(SetCell(matrix, flight_map[conflicts[k].uav1_id],
                                            flight_map[conflicts[k].uav2_id]),
                            flight_map[conflicts[k].uav2_id],
                            flight_map[conflicts[k].uav1_id]))

\* ConflictDetector.get_conflict_matrix
get_conflict_matrix(self, flights) ==
    MatrixFrom(find_conflicts(self, flights), FlightMapFrom(flights, 1, EmptyDict), 1,
               [i \in 1..Len(flights) |-> [j \in 1..Len(flights) |-> FALSE]])

(***************************************************************************)
(* verification_service.py                                                 *)
(***************************************************************************)
\* (a + b) / 2
Mid(a, b) == RDiv(RAdd(a, b), Q(2))

\* conflict_detail with the first position as the location, in place of the
\* midpoint.
conflict_detail_at_position1(primary_mission, conflict) ==
    [location |-> conflict.position1,
     time |-> conflict.time,
     conflicting_flight |-> IF conflict.uav1_id = primary_mission.uav_id
                            THEN conflict.uav2_id ELSE conflict.uav1_id,
     distance |-> conflict.distance,
     severity |-> conflict.severity]

\* The conflict_details entry verify_mission builds for one conflict.
conflict_detail(primary_mission, conflict) ==
    [location |-> <<Mid(conflict.position1[1], conflict.position2[1]),
                    Mid(conflict.position1[2], conflict.position2[2]),
                    Mid(conflict.position1[3], conflict.position2[3])>>,
     time |-> conflict.time,
     conflicting_flight |-> IF conflict.uav1_id = primary_mission.uav_id
                            THEN conflict.uav2_id ELSE conflict.uav1_id,
     distance |-> conflict.distance,
     severity |-> conflict.severity]

\* The body of verify_mission's loop for one scheduled flight: the conflicts
\* it appends to all_conflicts.
relevant_conflicts(detector, primary_mission, simulated_flight) ==
    SelectSeq(find_conflicts(detector, <<primary_mission, simulated_flight>>),
              LAMBDA c : c.uav1_id = primary_mission.uav_id
                         \/ c.uav2_id = primary_mission.uav_id)

\* verification_result with the status taken from len(all_conflicts) <= 1.
verification_result_off_by_one(primary_mission, conflicts) ==
    [status |-> IF Len(conflicts) <= 1 THEN "CLEAR" ELSE "CONFLICT_DETECTED",
     primary_mission |-> primary_mission,
     conflicts |-> conflicts,
     conflict_details |-> [k \in 1..Len(conflicts) |->
                              conflict_detail(primary_mission, conflicts[k])]]

\* The part of verify_mission after its loop: the VerificationResult.
verification_result(primary_mission, conflicts) ==
    [status |-> IF Len(conflicts) = 0 THEN "CLEAR" ELSE "CONFLICT_DETECTED",
     primary_mission |-> primary_mission,
     conflicts |-> conflicts,
     conflict_details |-> [k \in 1..Len(conflicts) |->
                              conflict_detail(primary_mission, conflicts[k])]]

(***************************************************************************)
(* The service as a state machine.  One client thread runs verify_mission, *)
(* whose loop reads self.simulated_schedules through a list iterator, one  *)
(* entry per step; another thread calls add_simulated_schedule and         *)
(* remove_simulated_schedule.  The program takes no lock, so the mutators  *)
(* interleave with the steps of the loop.                                  *)
(***************************************************************************)
VARIABLES
    simulated_schedules,  \* self.simulated_schedules
    pc,                   \* where the verify_mission call is
    primary,              \* its primary_mission
    it,                   \* the index of its list iterator (entries consumed)
    all_conflicts,        \* its all_conflicts
    result,               \* None, or the VerificationResult it returned
    checked,              \* history: the entries its loop has checked
    views,                \* history: the contents of the registered set since it started
    ops,                  \* history: the number of mutator calls since it started
    inp,                  \* the arguments of a call of a pure operation
    out                   \* None, or what that call returned

vars == <<simulated_schedules, pc, primary, it, all_conflicts, result, checked,
          views, ops, inp, out>>

svc_vars == <<simulated_schedules, pc, primary, it, all_conflicts, result, checked,
              views, ops>>

\* Bounds of the service's state space: the length of the registered list, and
\* the number of mutator calls that interleave with one verify_mission call.
MaxSched == 2
MaxOps == 2

\* MissionVerificationService(schedules): safety_distance and time_step take
\* their defaults, and the detector its own defaults for the rest.
service_safety_distance == 10
detector_time_window == 10
service_detector ==
    ConflictDetector(Q(service_safety_distance), <<1, 2>>,
                     Q(detector_time_window), <<3, 2>>)

\* The flights the clients of the service use: straight legs flown over the
\* same second along the x axis, between x = 0 and x = LegLength, at the
\* altitude z.  The primary flies at z = 0, in one direction or the other;
\* the scheduled flights fly 4 m or 20 m above it, and one of them carries
\* the identifier of the primary and flies the leg in the other direction.
LegLength == 5
LegSpeed == Q(5)
Leg(id, x1, x2, z) ==
    FlightPlan(id, <<Waypoint(Q(x1), Q(0), Q(z), Q(0)),
                     Waypoint(Q(x2), Q(0), Q(z), Q(1))>>, LegSpeed, 1)
PrimaryFlights == {Leg("P", 0, LegLength, 0), Leg("P", LegLength, 0, 0)}
ScheduledIds == {"P", "S1"}
ScheduledLegs == {<<"S1", 0, 4>>, <<"S1", 0, 20>>, <<"P", LegLength, 4>>}
ScheduledFlights == {Leg(l[1], l[2], LegLength - l[2], l[3]) : l \in ScheduledLegs}

Init ==
    /\ simulated_schedules \in {<<>>} \cup {<<f>> : f \in ScheduledFlights}
    /\ pc = "idle"
    /\ primary = None
    /\ it = 0
    /\ all_conflicts = <<>>
    /\ result = None
    /\ checked = <<>>
    /\ views = {}
    /\ ops = 0
    /\ inp = None
    /\ out = None

\* all_conflicts.extend(relevant_conflicts) that puts the new ones first.
extend_first(conflicts, more) == more \o conflicts

\* all_conflicts.extend(relevant_conflicts)
extend(conflicts, more) == conflicts \o more

\* verify_mission(primary_mission) is called: all_conflicts = [] and the for
\* statement takes an iterator of the list.
VerifyCall(primary_mission) ==
    /\ pc \in {"idle", "returned"}
    /\ pc' = "loop"
    /\ primary' = Some(primary_mission)
    /\ it' = 0
    /\ all_conflicts' = <<>>
    /\ result' = None
    /\ checked' = <<>>
    /\ views' = {simulated_schedules}
    /\ ops' = 0
    /\ UNCHANGED <<simulated_schedules, inp, out>>

\* One iteration of the loop: the iterator yields the entry at its index.
VerifyLoop ==
    /\ pc = "loop"
    /\ it < Len(simulated_schedules)
    /\ LET simulated_flight == simulated_schedules[it + 1]
       IN  /\ all_conflicts' =
                   extend(all_conflicts,
                          relevant_conflicts(service_detector, The(primary),
                                             simulated_flight))
           /\ checked' = Append(checked, simulated_flight)
    /\ it' = it + 1
    /\ UNCHANGED <<simulated_schedules, pc, primary, result, views, ops, inp, out>>

\* The iterator is exhausted: the loop ends, and the rest of verify_mission
\* builds and returns the result.
VerifyReturn ==
    /\ pc = "loop"
    /\ it >= Len(simulated_schedules)
    /\ pc' = "returned"
    /\ result' = Some(verification_result(The(primary), all_conflicts))
    /\ UNCHANGED <<simulated_schedules, primary, it, all_conflicts, checked, views,
                   ops, inp, out>>

\* add_simulated_schedule that inserts the flight before the entries.
add_simulated_schedule_first(schedules, flight) == <<flight>> \o schedules

\* self.simulated_schedules.append(flight)
add_simulated_schedule(schedules, flight) == Append(schedules, flight)

\* The index of the first entry of schedules at or after i with this uav_id, or 0.
RECURSIVE FirstWithId(_, _, _)
FirstWithId(schedules, uav_id, i) ==
    IF i > Len(schedules) THEN 0
    ELSE IF schedules[i].uav_id = uav_id THEN i
    ELSE FirstWithId(schedules, uav_id, i + 1)

\* remove_simulated_schedule that pops the last entry when its loop stops at
\* no index.
remove_at_pop_last(schedules, i) ==
    IF i = 0 THEN [schedules |-> SubSeq(schedules, 1, Len(schedules) - 1),
                   returned |-> FALSE]
    ELSE [schedules |-> SubSeq(schedules, 1, i - 1)
                        \o SubSeq(schedules, i + 1, Len(schedules)),
          returned |-> TRUE]

\* remove_simulated_schedule(uav_id), whose loop stops at index i (0: at no
\* index): the list after the call and the value returned.
remove_at(schedules, i) ==
    IF i = 0 THEN [schedules |-> schedules, returned |-> FALSE]
    ELSE [schedules |-> SubSeq(schedules, 1, i - 1)
                        \o SubSeq(schedules, i + 1, Len(schedules)),
          returned |-> TRUE]

remove_simulated_schedule(schedules, uav_id) ==
    remove_at(schedules, FirstWithId(schedules, uav_id, 1))

\* The caller has taken the result: the finished call's locals are gone.
VerifyDone ==
    /\ pc = "returned"
    /\ pc' = "idle"
    /\ primary' = None
    /\ it' = 0
    /\ all_conflicts' = <<>>
    /\ result' = None
    /\ checked' = <<>>
    /\ views' = {}
    /\ ops' = 0
    /\ UNCHANGED <<simulated_schedules, inp, out>>

\* A mutator call runs while no verify_mission call is in flight, or between
\* two steps of the one in flight.
Mutate(schedules) ==
    /\ pc \in {"idle", "loop"}
    /\ pc = "loop" => ops < MaxOps
    /\ simulated_schedules' = schedules
    /\ views' = IF pc = "loop" THEN views \cup {schedules} ELSE views
    /\ ops' = IF pc = "loop" THEN ops + 1 ELSE ops
    /\ UNCHANGED <<pc, primary, it, all_conflicts, result, checked, inp, out>>

AddSchedule(flight) ==
    /\ Len(simulated_schedules) < MaxSched
    /\ Mutate(add_simulated_schedule(simulated_schedules, flight))

RemoveSchedule(uav_id) ==
    Mutate(remove_simulated_schedule(simulated_schedules, uav_id).schedules)

Next ==
    \/ \E p \in PrimaryFlights : VerifyCall(p)
    \/ VerifyLoop
    \/ VerifyReturn
    \/ VerifyDone
    \/ \E f \in ScheduledFlights : AddSchedule(f)
    \/ \E id \in ScheduledIds \cup {"S2"} : RemoveSchedule(id)

Spec == Init /\ [][Next]_vars

(***************************************************************************)
(* Properties of the service                                               *)
(***************************************************************************)
\* C1: when verify_mission returns, the list of scheduled flights its loop
\* checked is the content the registered list had at some instant between the
\* call's start and its end.
C1_ConsistentView == pc = "returned" => checked \in views

\* C2: verify_mission returns a result whose status is CLEAR or
\* CONFLICT_DETECTED, and CLEAR exactly when the result's conflict list is
\* empty; and the call never stops short of returning.
C2_StatusTotal ==
    /\ pc = "loop" => (it < Len(simulated_schedules) \/ ENABLED VerifyReturn)
    /\ pc = "returned" =>
          /\ ~IsNone(result)
          /\ The(result).status \in {"CLEAR", "CONFLICT_DETECTED"}
          /\ The(result).status = "CLEAR" <=> The(result).conflicts = <<>>

\* A call has returned CONFLICT_DETECTED with a single conflict.
C2_Witness ==
    /\ pc = "returned"
    /\ The(result).status = "CONFLICT_DETECTED"
    /\ Len(The(result).conflicts) = 1

\* C6: every conflict of a result names the primary; conflict_details has the
\* length and order of conflicts, and detail k carries the time, distance and
\* severity of conflict k, the other identifier of conflict k, and the
\* midpoint of its two positions.
DetailMatches(primary_id, c, d) ==
    /\ primary_id \in {c.uav1_id, c.uav2_id}
    /\ {c.uav1_id, c.uav2_id} = {primary_id, d.conflicting_flight}
    /\ d.time = c.time
    /\ d.distance = c.distance
    /\ d.severity = c.severity
    /\ \A i \in 1..3 : RMul(Q(2), d.location[i]) = RAdd(c.position1[i], c.position2[i])

C6_ConflictDetails ==
    pc = "returned" =>
        /\ Len(The(result).conflict_details) = Len(The(result).conflicts)
        /\ \A k \in 1..Len(The(result).conflicts) :
              DetailMatches(The(primary).uav_id, The(result).conflicts[k],
                            The(result).conflict_details[k])

\* A call has returned two conflicts, the second one with a flight other than
\* the primary at a place other than the primary's.
C6_Witness ==
    /\ pc = "returned"
    /\ Len(The(result).conflicts) = 2
    /\ The(result).conflict_details[2].conflicting_flight = "S1"
    /\ The(result).conflicts[2].position1 # The(result).conflicts[2].position2

\* The results of the pair checks of the primary against each of the entries
\* from entry k on, one after the other.
RECURSIVE PairResultsFrom(_, _, _)
PairResultsFrom(primary_mission, entries, k) ==
    IF k > Len(entries) THEN <<>>
    ELSE check_pair(service_detector, primary_mission, entries[k])
         \o PairResultsFrom(primary_mission, entries, k + 1)

\* C22: verify_mission makes one pair check, of the primary against the
\* entry, for each entry of the registered list (the entries its loop went
\* through are the registered list when no mutator call ran during the
\* call) and none of two scheduled flights; the conflicts it returns are
\* the results of these checks one after the other in the order of the
\* entries, not in the order of their times, and each check gives at most
\* one conflict.
C22_OnePairPerEntry ==
    pc = "returned" =>
        /\ ops = 0 => checked = simulated_schedules
        /\ The(result).conflicts = PairResultsFrom(The(primary), checked, 1)
        /\ \A k \in 1..Len(checked) :
               Len(check_pair(service_detector, The(primary), checked[k])) <= 1

\* A call that no mutator call interleaved with has returned two conflicts,
\* the first one later than the second.
C22_Witness ==
    /\ pc = "returned"
    /\ ops = 0
    /\ Len(checked) = 2
    /\ Len(The(result).conflicts) = 2
    /\ RGt(The(result).conflicts[1].time, The(result).conflicts[2].time)

\* The flight is an entry of the list.
Holds(list, flight) == \E k \in 1..Len(list) : list[k] = flight

\* C27: a scheduled flight that is registered when a verify_mission call
\* starts and stays registered until the call returns, whatever mutator
\* calls on other entries run in between, is checked by the call.
C27_NoEntrySkipped ==
    pc = "returned" =>
        \A f \in ScheduledFlights :
            (\A v \in views : Holds(v, f)) => Holds(checked, f)

(***************************************************************************)
(* One call of a method of the service, run from its start to its return   *)
(* with no other call in between, on a service constructed with any list   *)
(* of up to MaxSched scheduled flights.  inp records the call with the     *)
(* registered list it found, out the value it returned.                    *)
(***************************************************************************)
RegisteredLists == UNION {[1..n -> ScheduledFlights] : n \in 0..MaxSched}

CallsInit ==
    /\ simulated_schedules \in RegisteredLists
    /\ pc = "idle"
    /\ primary = None
    /\ it = 0
    /\ all_conflicts = <<>>
    /\ result = None
    /\ checked = <<>>
    /\ views = {}
    /\ ops = 0
    /\ inp = None
    /\ out = None

\* A call has returned: the list it leaves, its arguments and its value.
Returned(call, after, value) ==
    /\ pc = "idle"
    /\ IsNone(inp)
    /\ simulated_schedules' = after
    /\ inp' = Some([call |-> call, before |-> simulated_schedules])
    /\ out' = Some(value)
    /\ UNCHANGED <<pc, primary, it, all_conflicts, result, checked, views, ops>>

CallAdd(flight) ==
    /\ Returned([op |-> "add_simulated_schedule", flight |-> flight],
                add_simulated_schedule(simulated_schedules, flight), None)

CallRemove(uav_id) ==
    Returned([op |-> "remove_simulated_schedule", uav_id |-> uav_id],
             remove_simulated_schedule(simulated_schedules, uav_id).schedules,
             remove_simulated_schedule(simulated_schedules, uav_id).returned)

\* The loop of verify_mission from entry k on, run with no other call in
\* between: what it adds to all_conflicts.
RECURSIVE VerifyFrom(_, _, _)
VerifyFrom(schedules, primary_mission, k) ==
    IF k > Len(schedules) THEN <<>>
    ELSE relevant_conflicts(service_detector, primary_mission, schedules[k])
         \o VerifyFrom(schedules, primary_mission, k + 1)

\* verify_mission(primary_mission) run from its start to its return against
\* the registered list schedules.
verify_mission(schedules, primary_mission) ==
    verification_result(primary_mission, VerifyFrom(schedules, primary_mission, 1))

\* The loop of batch_verify from mission k on.
RECURSIVE BatchFrom(_, _, _, _)
BatchFrom(schedules, missions, k, results) ==
    IF k > Len(missions) THEN results
    ELSE BatchFrom(schedules, missions, k + 1,
                   Put(results, missions[k].uav_id,
                       verify_mission(schedules, missions[k])))

\* batch_verify(missions): the registered list after the call and the dict
\* returned.
batch_verify(schedules, missions) ==
    [schedules |-> schedules,
     returned |-> BatchFrom(schedules, missions, 1, EmptyDict)]

\* The missions of a batch: the two primary flights, which carry the same
\* identifier, and a flight of another identifier; a batch has up to MaxBatch
\* of them.
MaxBatch == 2
BatchMissions == PrimaryFlights \cup {Leg("Q", 0, LegLength, 0)}
Batches == UNION {[1..n -> BatchMissions] : n \in 0..MaxBatch}

CallBatch(missions) ==
    Returned([op |-> "batch_verify", missions |-> missions],
             batch_verify(simulated_schedules, missions).schedules,
             batch_verify(simulated_schedules, missions).returned)

CallsNext ==
    \/ \E f \in ScheduledFlights : CallAdd(f)
    \/ \E id \in ScheduledIds \cup {"S2"} : CallRemove(id)
    \/ \E missions \in Batches : CallBatch(missions)

SpecCalls == CallsInit /\ [][CallsNext]_vars

\* The call made is a call of op.
LastCall(op) == ~IsNone(inp) /\ The(inp).call.op = op

\* C12: remove_simulated_schedule with a uav_id that no entry of the
\* registered list carries returns False and leaves the list as it was.
C12_RemoveAbsent ==
    LastCall("remove_simulated_schedule") =>
        ((\A k \in 1..Len(The(inp).before) :
              The(inp).before[k].uav_id # The(inp).call.uav_id)
            => /\ The(out) = FALSE
               /\ simulated_schedules = The(inp).before)

\* An identifier that neither of the two registered flights carries has been
\* asked to be removed.
C12_Witness ==
    /\ LastCall("remove_simulated_schedule")
    /\ Len(The(inp).before) = 2
    /\ \A k \in 1..2 : The(inp).before[k].uav_id # The(inp).call.uav_id
    /\ The(out) = FALSE

\* C30: after a remove_simulated_schedule(uav_id) that returned True, no
\* registered flight carries uav_id, and verify_mission of a primary mission
\* of another identifier gives no conflict with uav_id.
C30_RemovedIsGone ==
    (LastCall("remove_simulated_schedule") /\ The(out) = TRUE) =>
        /\ \A k \in 1..Len(simulated_schedules) :
               simulated_schedules[k].uav_id # The(inp).call.uav_id
        /\ \A p \in {q \in PrimaryFlights : q.uav_id # The(inp).call.uav_id} :
               \A k \in 1..Len(verify_mission(simulated_schedules, p).conflicts) :
                   /\ verify_mission(simulated_schedules, p).conflicts[k].uav1_id
                         # The(inp).call.uav_id
                   /\ verify_mission(simulated_schedules, p).conflicts[k].uav2_id
                         # The(inp).call.uav_id

\* C13: add_simulated_schedule(flight) leaves a registered list that is one
\* entry longer, whose last entry is flight, and whose earlier entries are
\* the entries it found, each at the position it had.
C13_AddAppends ==
    LastCall("add_simulated_schedule") =>
        /\ Len(simulated_schedules) = Len(The(inp).before) + 1
        /\ simulated_schedules[Len(simulated_schedules)] = The(inp).call.flight
        /\ \A k \in 1..Len(The(inp).before) :
               simulated_schedules[k] = The(inp).before[k]

\* A flight has been added to a list that held another flight.
C13_Witness ==
    /\ LastCall("add_simulated_schedule")
    /\ Len(The(inp).before) = 1
    /\ The(inp).before[1] # The(inp).call.flight
    /\ simulated_schedules[2] = The(inp).call.flight

\* The statement of C14 as first made: the dict batch_verify returns has as
\* many entries as the batch has missions, the entry at the identifier of
\* each mission is the result of verify_mission for that mission, and the
\* registered list is as the call found it.
C14_OnePerMission ==
    LastCall("batch_verify") =>
        /\ Cardinality(DOMAIN The(out)) = Len(The(inp).call.missions)
        /\ \A k \in 1..Len(The(inp).call.missions) :
               /\ The(inp).call.missions[k].uav_id \in DOMAIN The(out)
               /\ The(out)[The(inp).call.missions[k].uav_id]
                     = verify_mission(The(inp).before, The(inp).call.missions[k])
        /\ simulated_schedules = The(inp).before

\* C14: the dict batch_verify returns has one entry per identifier that a
\* mission of the batch carries (so one per mission when no two missions
\* share an identifier); the entry of an identifier is the result of
\* verify_mission, against the registered list as the call found it, for the
\* last mission of the batch that carries the identifier; and the registered
\* list is as the call found it.
C14_BatchVerify ==
    LastCall("batch_verify") =>
        LET missions == The(inp).call.missions
        IN  /\ DOMAIN The(out) = {missions[k].uav_id : k \in 1..Len(missions)}
            /\ \A k \in 1..Len(missions) :
                   (\A l \in (k + 1)..Len(missions) :
                        missions[l].uav_id # missions[k].uav_id)
                     => The(out)[missions[k].uav_id]
                          = verify_mission(The(inp).before, missions[k])
            /\ simulated_schedules = The(inp).before

\* A batch of two different missions that carry the same identifier has been
\* verified against a registered list of two flights, and the one entry
\* returned reports a conflict.
C14_Witness ==
    /\ LastCall("batch_verify")
    /\ Len(The(inp).call.missions) = 2
    /\ The(inp).call.missions[1] # The(inp).call.missions[2]
    /\ The(inp).call.missions[1].uav_id = The(inp).call.missions[2].uav_id
    /\ Len(The(inp).before) = 2
    /\ Cardinality(DOMAIN The(out)) = 1
    /\ The(out)[The(inp).call.missions[2].uav_id].status = "CONFLICT_DETECTED"

(***************************************************************************)
(* interpolate_position as a function of the flight and the query time:    *)
(* the input is drawn by FlightInit and the call made by Interpolate.      *)
(***************************************************************************)
\* The service is not in use.
service_unused ==
    /\ simulated_schedules = <<>>
    /\ pc = "idle"
    /\ primary = None
    /\ it = 0
    /\ all_conflicts = <<>>
    /\ result = None
    /\ checked = <<>>
    /\ views = {}
    /\ ops = 0

\* Waypoints lie on the line y = 2x, z = 0, at x in 0..MaxCoord, and carry the
\* times 0..MaxTime; a flight has 2 or 3 of them.
MaxCoord == 2
MaxTime == 2
LineWaypoint(x, t) == Waypoint(Q(x), Q(2 * x), Q(0), Q(t))
LineWaypoints == {LineWaypoint(x, t) : x \in 0..MaxCoord, t \in 0..MaxTime}
NonDecreasingTimes(wps) == \A i \in 1..(Len(wps) - 1) : RLe(wps[i].time, wps[i + 1].time)
LineRoutes ==
    {wps \in [1..2 -> LineWaypoints] \cup [1..3 -> LineWaypoints] :
        NonDecreasingTimes(wps)}
LineFlights == {FlightPlan("A", wps, Q(1), 1) : wps \in LineRoutes}
\* Query times: every half second from half a second before 0 to half a
\* second after MaxTime.
QueryTimes == {Rat(n, 2) : n \in (-1)..(2 * MaxTime + 1)}

FlightInit ==
    /\ service_unused
    /\ inp \in {Some([flight |-> f, t |-> t]) : f \in LineFlights, t \in QueryTimes}
    /\ out = None

Interpolate ==
    /\ ~IsNone(inp)
    /\ IsNone(out)
    /\ out' = Some(interpolate_position(The(inp).flight, The(inp).t))
    /\ UNCHANGED <<svc_vars, inp>>

FlightNext == Interpolate

SpecFlight == FlightInit /\ [][FlightNext]_vars

(***************************************************************************)
(* Properties of interpolate_position                                      *)
(***************************************************************************)
\* C10: at the time of any waypoint of the flight, interpolate_position
\* returns the position of that waypoint; in particular at the time of the
\* first and at the time of the last.
C10_WaypointPositions ==
    ~IsNone(out) =>
        \A k \in 1..Len(The(inp).flight.waypoints) :
            The(inp).flight.waypoints[k].time = The(inp).t =>
                The(out) = Some(<<The(inp).flight.waypoints[k].x,
                                  The(inp).flight.waypoints[k].y,
                                  The(inp).flight.waypoints[k].z>>)

\* C11: interpolate_position returns None exactly when the query time is
\* strictly before the time of the first waypoint or strictly after the time
\* of the last; at every time of the closed range of a flight whose waypoint
\* times never decrease it returns a position.
C11_AbsentIffOutside ==
    ~IsNone(out) =>
        LET wps == The(inp).flight.waypoints
            t == The(inp).t
        IN  IsNone(The(out)) <=> (RLt(t, wps[1].time) \/ RGt(t, wps[Len(wps)].time))

\* A query at the time of the first waypoint of a flight of three waypoints
\* whose times are all different has returned a position.
C11_Witness ==
    /\ ~IsNone(out)
    /\ ~IsNone(The(out))
    /\ Len(The(inp).flight.waypoints) = 3
    /\ The(inp).t = The(inp).flight.waypoints[1].time
    /\ RLt(The(inp).flight.waypoints[1].time, The(inp).flight.waypoints[2].time)
    /\ RLt(The(inp).flight.waypoints[2].time, The(inp).flight.waypoints[3].time)

\* A query after the time of the last waypoint has returned None.
C11_WitnessOutside ==
    /\ ~IsNone(out)
    /\ IsNone(The(out))
    /\ RGt(The(inp).t, The(inp).flight.waypoints[Len(The(inp).flight.waypoints)].time)

(***************************************************************************)
(* find_conflicts as a function of the detector and the list of flights:   *)
(* the input is drawn by DetectorInit and the call made by FindConflicts.  *)
(***************************************************************************)
\* ConflictDetector(): every parameter takes its default.
detector_safety_distance == 10
detector_time_step == 1
default_detector ==
    ConflictDetector(Q(detector_safety_distance), Q(detector_time_step),
                     Q(detector_time_window), <<3, 2>>)

\* A drone that holds the place p from t1 to t2.
Hover(p, t1, t2) ==
    <<Waypoint(p[1], p[2], p[3], Q(t1)), Waypoint(p[1], p[2], p[3], Q(t2))>>

\* The origin; a place 6 m from it; a place 5 m above it (weighted: 7.5 m); a
\* place exactly the safety distance from it; a place 20/3 m above it
\* (weighted: exactly the safety distance).
Origin == <<Q(0), Q(0), Q(0)>>
NearPlaces == {Origin, <<Q(6), Q(0), Q(0)>>, <<Q(0), Q(0), Q(5)>>}
Places == NearPlaces \cup {<<Q(0), Q(10), Q(0)>>, <<Q(0), Q(0), <<20, 3>>>>}

\* The time spans of the hovering drones: [0, 2] and a span inside it, one
\* touching it at t = 2 and one after it.
EarlyWindows == {<<0, 2>>, <<1, 2>>}
Windows == EarlyWindows \cup {<<2, 3>>, <<3, 4>>}
HoverRoutes == {Hover(p, w[1], w[2]) : p \in Places, w \in Windows}

\* Out along the x axis to x = 11 and back, and the two directions of a leg
\* of 8 m flown in 2 s.
OutAndBack ==
    <<Waypoint(Q(0), Q(0), Q(0), Q(0)), Waypoint(Q(11), Q(0), Q(0), Q(1)),
      Waypoint(Q(0), Q(0), Q(0), Q(2))>>
Eastward == <<Waypoint(Q(0), Q(0), Q(0), Q(0)), Waypoint(Q(8), Q(0), Q(0), Q(2))>>
Westward == <<Waypoint(Q(8), Q(0), Q(0), Q(0)), Waypoint(Q(0), Q(0), Q(0), Q(2))>>
\* The route flown dz higher.
Above(route, dz) ==
    [k \in 1..Len(route) |->
        Waypoint(route[k].x, route[k].y, RAdd(route[k].z, Q(dz)), route[k].time)]
StackedRoutes == {Above(Eastward, 5), Above(Eastward, 20)}
\* The two directions of a leg of 13 m flown in 1 s.
Dash == <<Waypoint(Q(0), Q(0), Q(0), Q(0)), Waypoint(Q(13), Q(0), Q(0), Q(1))>>
DashBack == <<Waypoint(Q(13), Q(0), Q(0), Q(0)), Waypoint(Q(0), Q(0), Q(0), Q(1))>>
\* Hovering at the origin until the time 2 and then, at the same time 2, 20 m
\* from it: the last segment takes no time.
Jump ==
    <<Waypoint(Q(0), Q(0), Q(0), Q(0)), Waypoint(Q(0), Q(0), Q(0), Q(2)),
      Waypoint(Q(20), Q(0), Q(0), Q(2))>>
\* Hovering 20 m from the origin, or at the origin, from half a microsecond
\* after the time 2 on.
JustAfter(x) ==
    <<Waypoint(Q(x), Q(0), Q(0), <<4000001, 2000000>>), Waypoint(Q(x), Q(0), Q(0), Q(3))>>
Routes ==
    HoverRoutes \cup {OutAndBack, Eastward, Westward} \cup StackedRoutes
        \cup {Dash, DashBack}
        \cup {Jump, JustAfter(0), JustAfter(20), Hover(<<Q(20), Q(0), Q(0)>>, 2, 3)}
        \cup {Hover(<<Q(19), Q(0), Q(0)>>, 0, 2)}

Flight(id, wps) == FlightPlan(id, wps, Q(1), 1)

\* Pairs of any two routes, and triples of drones hovering near the origin
\* during [0, 2].
FlightPairs == {<<Flight("A", r1), Flight("B", r2)>> : r1 \in Routes, r2 \in Routes}
NearRoutes == {Hover(p, w[1], w[2]) : p \in NearPlaces, w \in EarlyWindows}
FlightTriples ==
    {<<Flight("A", Hover(Origin, w[1], w[2])), Flight("B", r2), Flight("C", r3)>> :
        w \in EarlyWindows, r2 \in NearRoutes, r3 \in NearRoutes}
FlightLists == FlightPairs \cup FlightTriples

DetectorInit ==
    /\ service_unused
    /\ inp \in {Some([detector |-> default_detector, flights |-> fs]) : fs \in FlightLists}
    /\ out = None

FindConflicts ==
    /\ ~IsNone(inp)
    /\ IsNone(out)
    /\ out' = Some(find_conflicts(The(inp).detector, The(inp).flights))
    /\ UNCHANGED <<svc_vars, inp>>

DetectorNext == FindConflicts

SpecDetector == DetectorInit /\ [][DetectorNext]_vars

(***************************************************************************)
(* Properties of find_conflicts                                            *)
(***************************************************************************)
\* The call has been made on a list of n flights.
Called(n) == ~IsNone(out) /\ Len(The(inp).flights) = n

\* The times at which _check_pair compares two flights.
PairTimes(self, f1, f2) ==
    IF RGt(RSub(overlap_start(f1, f2), overlap_end(f1, f2)), Eps) THEN {}
    ELSE {sample_times(self, f1, f2, overlap_start(f1, f2), overlap_end(f1, f2))[k] :
             k \in DOMAIN sample_times(self, f1, f2, overlap_start(f1, f2),
                                       overlap_end(f1, f2))}

\* The square of the weighted distance between two positions.
SquaredDistance(self, p1, p2) ==
    RAdd(RAdd(RMul(RSub(p1[1], p2[1]), RSub(p1[1], p2[1])),
              RMul(RSub(p1[2], p2[2]), RSub(p1[2], p2[2]))),
         RMul(RMul(self.vertical_weight, self.vertical_weight),
              RMul(RSub(p1[3], p2[3]), RSub(p1[3], p2[3]))))

\* The squared weighted distance of two flights at the time t (both flying).
SquaredDistanceAt(self, f1, f2, t) ==
    SquaredDistance(self, The(interpolate_position(f1, t)),
                    The(interpolate_position(f2, t)))

BothFlying(f1, f2, t) ==
    ~IsNone(interpolate_position(f1, t)) /\ ~IsNone(interpolate_position(f2, t))

\* The squared weighted distances at the samples of the pair.
SampledSquares(self, f1, f2) ==
    {SquaredDistanceAt(self, f1, f2, t) :
        t \in {u \in PairTimes(self, f1, f2) : BothFlying(f1, f2, u)}}

SquaredSafety(self) == RMul(self.safety_distance, self.safety_distance)

\* C3: the check of a pair emits a conflict exactly when some sample is
\* strictly closer than safety_distance, and the conflict's distance is then
\* the minimum over the samples; a minimum equal to safety_distance gives none.
C3_StrictThreshold ==
    Called(2) =>
        LET self == The(inp).detector
            squares == SampledSquares(self, The(inp).flights[1], The(inp).flights[2])
        IN  /\ The(out) # <<>> <=> \E d \in squares : RLt(d, SquaredSafety(self))
            /\ The(out) # <<>> =>
                  /\ Len(The(out)) = 1
                  /\ \A d \in squares : RealLe(The(out)[1].distance, Sqrt(d))
                  /\ \E d \in squares : RealEq(The(out)[1].distance, Sqrt(d))

\* The closest sample of a pair is exactly at safety_distance, and the call
\* has returned no conflict.
C3_Witness ==
    /\ Called(2)
    /\ The(out) = <<>>
    /\ \E d \in SampledSquares(The(inp).detector, The(inp).flights[1],
                              The(inp).flights[2]) :
          d = SquaredSafety(The(inp).detector)

\* The time span of a flight.
SpanStart(f) == f.waypoints[1].time
SpanEnd(f) == f.waypoints[Len(f.waypoints)].time

\* One of the two flights starts more than 1e-6 s after the other has ended.
DisjointSpans(f1, f2) ==
    \/ RGt(RSub(SpanStart(f2), SpanEnd(f1)), Eps)
    \/ RGt(RSub(SpanStart(f1), SpanEnd(f2)), Eps)

\* C4: two flights whose time spans do not overlap give no conflict, whatever
\* their waypoints.
C4_DisjointSpans ==
    (Called(2) /\ DisjointSpans(The(inp).flights[1], The(inp).flights[2]))
        => The(out) = <<>>

\* Two flights over one and the same path, at times that do not overlap.
C4_Witness ==
    /\ Called(2)
    /\ DisjointSpans(The(inp).flights[1], The(inp).flights[2])
    /\ \A k \in 1..2 :
          \A c \in {"x", "y", "z"} :
              The(inp).flights[1].waypoints[k][c] = The(inp).flights[2].waypoints[k][c]
    /\ The(out) = <<>>

\* The index in the list of the flight with this identifier.
IndexOf(flights, id) == CHOOSE i \in 1..Len(flights) : flights[i].uav_id = id

\* C5: every conflict is between an earlier and a later flight of the list,
\* no two conflicts are of the same two flights, and a list of n flights
\* gives at most n(n-1)/2 conflicts.
C5_OnePerPair ==
    ~IsNone(out) =>
        LET flights == The(inp).flights
            cs == The(out)
        IN  /\ 2 * Len(cs) <= Len(flights) * (Len(flights) - 1)
            /\ \A k \in 1..Len(cs) :
                  \E i \in 1..Len(flights) : \E j \in (i + 1)..Len(flights) :
                      cs[k].uav1_id = flights[i].uav_id /\ cs[k].uav2_id = flights[j].uav_id
            /\ \A k \in 1..Len(cs) : \A l \in 1..Len(cs) :
                  k # l => {cs[k].uav1_id, cs[k].uav2_id} # {cs[l].uav1_id, cs[l].uav2_id}

\* A pair sampled below the safety distance, then at or above it, then below
\* it again, has given one conflict.
C5_Witness ==
    /\ Called(2)
    /\ Len(The(out)) = 1
    /\ LET self == The(inp).detector
           f1 == The(inp).flights[1]
           f2 == The(inp).flights[2]
           times == {u \in PairTimes(self, f1, f2) : BothFlying(f1, f2, u)}
           Below(t) == RLt(SquaredDistanceAt(self, f1, f2, t), SquaredSafety(self))
       IN  \E t1 \in times : \E t2 \in times : \E t3 \in times :
              /\ RLt(t1, t2) /\ RLt(t2, t3)
              /\ Below(t1) /\ ~Below(t2) /\ Below(t3)

\* c2 is c1 with the two flights exchanged.
Swapped(c1, c2) ==
    /\ c1.time = c2.time
    /\ RealEq(c1.distance, c2.distance)
    /\ RealEq(c1.severity, c2.severity)
    /\ c1.uav1_id = c2.uav2_id /\ c1.uav2_id = c2.uav1_id
    /\ c1.position1 = c2.position2 /\ c1.position2 = c2.position1

\* C7: find_conflicts([A, B]) and find_conflicts([B, A]) both give no
\* conflict, or both give one conflict, the same but for the exchange of the
\* two flights.
C7_OrderSymmetric ==
    Called(2) =>
        LET reversed == find_conflicts(The(inp).detector,
                                       <<The(inp).flights[2], The(inp).flights[1]>>)
        IN  /\ Len(The(out)) <= 1
            /\ Len(reversed) = Len(The(out))
            /\ Len(The(out)) = 1 => Swapped(The(out)[1], reversed[1])

\* A conflict of two flights of different speeds, found after the first
\* sample, at two different positions.
C7_Witness ==
    /\ Called(2)
    /\ Len(The(out)) = 1
    /\ The(out)[1].position1 # The(out)[1].position2
    /\ RGt(The(out)[1].time, overlap_start(The(inp).flights[1], The(inp).flights[2]))
    /\ calculate_max_segment_speed(The(inp).flights[1])
          # calculate_max_segment_speed(The(inp).flights[2])

\* The rank of a conflict's pair in the order find_conflicts evaluates the
\* pairs: (i, j) before (i', j') when (i, j) is lexicographically smaller.
PairRank(flights, c) ==
    IndexOf(flights, c.uav1_id) * (Len(flights) + 1) + IndexOf(flights, c.uav2_id)

\* C8: the conflicts are in non-decreasing order of time, and those of one
\* time in the order their pairs were evaluated.
C8_SortedStable ==
    ~IsNone(out) =>
        \A k \in 1..Len(The(out)) : \A l \in (k + 1)..Len(The(out)) :
            /\ RLe(The(out)[k].time, The(out)[l].time)
            /\ The(out)[k].time = The(out)[l].time =>
                  PairRank(The(inp).flights, The(out)[k])
                      < PairRank(The(inp).flights, The(out)[l])

\* Three conflicts: the first returned is not of the first pair evaluated,
\* and the other two have the same time.
C8_Witness ==
    /\ Called(3)
    /\ Len(The(out)) = 3
    /\ The(out)[1].uav2_id = "C"
    /\ The(out)[2].time = The(out)[3].time
    /\ RLt(The(out)[1].time, The(out)[2].time)

\* severity = 1 - distance / safety_distance, for 0 <= distance <=
\* safety_distance: safety_distance * severity + distance - safety_distance
\* is 0.
SeverityIs(self, c) ==
    /\ RealLe(Real(Q(0)), c.distance)
    /\ RealLe(c.distance, Real(self.safety_distance))
    /\ Sign3(RSub(RAdd(RMul(self.safety_distance, c.severity.a), c.distance.a),
                  self.safety_distance),
             RMul(self.safety_distance, c.severity.b), c.severity.r,
             c.distance.b, c.distance.r) = 0

\* C9: the severity of every conflict is clamp(1 - distance/safety_distance,
\* 0, 1); it is in [0, 1]; of two conflicts, the one at the smaller distance
\* never has the smaller severity; and the severity is 0 exactly at the
\* distance safety_distance.
C9_Severity ==
    ~IsNone(out) =>
        LET self == The(inp).detector
            cs == The(out)
        IN  /\ \A k \in 1..Len(cs) :
                  /\ SeverityIs(self, cs[k])
                  /\ RealLe(Real(Q(0)), cs[k].severity)
                  /\ RealLe(cs[k].severity, Real(Q(1)))
                  /\ RealEq(cs[k].severity, Real(Q(0)))
                        <=> RealEq(cs[k].distance, Real(self.safety_distance))
            /\ \A k \in 1..Len(cs) : \A l \in 1..Len(cs) :
                  RealLt(cs[k].distance, cs[l].distance)
                      => RealGe(cs[k].severity, cs[l].severity)
            /\ RealEq(severity_of(self, Real(self.safety_distance)), Real(Q(0)))
            /\ \A k \in 1..Len(cs) :
                  RealGt(cs[k].severity,
                         severity_of(self, Real(self.safety_distance)))

\* Two conflicts of one call at different distances, the closer one the more
\* severe, and neither at distance 0.
C9_Witness ==
    /\ ~IsNone(out)
    /\ \E k \in 1..Len(The(out)) : \E l \in 1..Len(The(out)) :
          /\ RealLt(Real(Q(0)), The(out)[k].distance)
          /\ RealLt(The(out)[k].distance, The(out)[l].distance)
          /\ RealGt(The(out)[k].severity, The(out)[l].severity)

\* Two flights with waypoints at the same times and the same x and y, the
\* one dz above or below the other at each.
Stacked(f1, f2, dz) ==
    /\ Len(f1.waypoints) = Len(f2.waypoints)
    /\ \A k \in 1..Len(f1.waypoints) :
           /\ f1.waypoints[k].time = f2.waypoints[k].time
           /\ f1.waypoints[k].x = f2.waypoints[k].x
           /\ f1.waypoints[k].y = f2.waypoints[k].y
           /\ RAbs(RSub(f1.waypoints[k].z, f2.waypoints[k].z)) = Q(dz)

C18_WitnessApart ==
    /\ Called(2)
    /\ Stacked(The(inp).flights[1], The(inp).flights[2], 20)
    /\ The(inp).flights[1].waypoints[1].x # The(inp).flights[1].waypoints[2].x
    /\ The(out) = <<>>

\* The overlap window of the pair is longer than 1e-6 s.
LongWindow(f1, f2) == RGt(RSub(overlap_end(f1, f2), overlap_start(f1, f2)), Eps)

\* safety_distance / (4 * relative_speed)
FourPerCrossing(self, f1, f2) ==
    RDiv(self.safety_distance, RMul(Q(4), relative_speed_of(f1, f2)))

CallTimes ==
    sample_times(The(inp).detector, The(inp).flights[1], The(inp).flights[2],
                 overlap_start(The(inp).flights[1], The(inp).flights[2]),
                 overlap_end(The(inp).flights[1], The(inp).flights[2]))

\* The step chosen for the pair of the call.
CallStep ==
    get_effective_time_step(The(inp).detector, The(inp).flights[1], The(inp).flights[2])

\* C25: when the overlap window is longer than 1e-6 s, there are at least
\* two sample times, the first is t_start and the last t_end, every two
\* consecutive ones are the same distance apart, and that distance is at
\* most the step chosen.
C25_UniformSamples ==
    (Called(2) /\ LongWindow(The(inp).flights[1], The(inp).flights[2])) =>
        /\ Len(CallTimes) >= 2
        /\ CallTimes[1] = overlap_start(The(inp).flights[1], The(inp).flights[2])
        /\ CallTimes[Len(CallTimes)]
              = overlap_end(The(inp).flights[1], The(inp).flights[2])
        /\ \A k \in 1..(Len(CallTimes) - 1) :
               /\ RSub(CallTimes[k + 1], CallTimes[k]) = RSub(CallTimes[2], CallTimes[1])
               /\ RGt(CallTimes[k + 1], CallTimes[k])
               /\ RLe(RSub(CallTimes[k + 1], CallTimes[k]), CallStep)

\* A pair has been checked at more than two sample times that are closer to
\* each other than the step chosen.
C25_Witness ==
    /\ Called(2)
    /\ LongWindow(The(inp).flights[1], The(inp).flights[2])
    /\ Len(CallTimes) > 2
    /\ RLt(RSub(CallTimes[2], CallTimes[1]), CallStep)

\* The overlap window of the pair is an instant: |t_end - t_start| <= 1e-6.
InstantWindow(f1, f2) ==
    RLe(RAbs(RSub(overlap_end(f1, f2), overlap_start(f1, f2))), Eps)

\* The flight f ends at the time at which the flight g starts, at a place
\* closer than safety_distance to the place where g starts.
EndsWhereStarts(self, f, g) ==
    /\ f.waypoints[Len(f.waypoints)].time = g.waypoints[1].time
    /\ RLt(SquaredDistance(self,
                            <<f.waypoints[Len(f.waypoints)].x,
                              f.waypoints[Len(f.waypoints)].y,
                              f.waypoints[Len(f.waypoints)].z>>,
                            <<g.waypoints[1].x, g.waypoints[1].y, g.waypoints[1].z>>),
           SquaredSafety(self))

\* When the overlap window of a pair is an instant, the pair is checked at
\* the one sample time t_start, and gives a conflict exactly when both
\* flights have a position at t_start and the weighted distance of the two
\* is below safety_distance.
InstantSample ==
    (Called(2) /\ InstantWindow(The(inp).flights[1], The(inp).flights[2])) =>
        LET self == The(inp).detector
            f1 == The(inp).flights[1]
            f2 == The(inp).flights[2]
        IN  /\ CallTimes = <<overlap_start(f1, f2)>>
            /\ The(out) # <<>> <=>
                   /\ BothFlying(f1, f2, overlap_start(f1, f2))
                   /\ RLt(SquaredDistanceAt(self, f1, f2, overlap_start(f1, f2)),
                          SquaredSafety(self))
            /\ The(out) # <<>> =>
                   Len(The(out)) = 1 /\ The(out)[1].time = overlap_start(f1, f2)

\* When one flight of a pair ends at the time T at which the other starts,
\* at a place closer than safety_distance to the place where the other
\* starts, the pair gives one conflict, at the time T.
SharedEndpoint ==
    (Called(2) /\ InstantWindow(The(inp).flights[1], The(inp).flights[2])) =>
        LET self == The(inp).detector
            f1 == The(inp).flights[1]
            f2 == The(inp).flights[2]
        IN  (EndsWhereStarts(self, f1, f2) \/ EndsWhereStarts(self, f2, f1)) =>
                /\ Len(The(out)) = 1
                /\ The(out)[1].time = overlap_start(f1, f2)

\* C26: when the overlap window is an instant (|t_end - t_start| <= 1e-6),
\* the pair is checked at exactly one sample, at that instant, and gives a
\* conflict exactly when the weighted distance of the two positions at that
\* instant is below safety_distance; in particular a flight that ends at
\* the time T closer than safety_distance to where the other starts at T
\* gives one conflict with the time T.
C26_InstantWindow == InstantSample /\ SharedEndpoint

\* Both flights have a position at the time t, and the weighted distance of
\* the two is below safety_distance.
BelowAt(self, f1, f2, t) ==
    /\ BothFlying(f1, f2, t)
    /\ RLt(SquaredDistanceAt(self, f1, f2, t), SquaredSafety(self))

\* The times of the waypoints of the two flights.
WaypointTimes(f1, f2) ==
    {f1.waypoints[k].time : k \in 1..Len(f1.waypoints)}
        \cup {f2.waypoints[k].time : k \in 1..Len(f2.waypoints)}

\* The weighted distance is below safety_distance at every instant of
\* [a, b]: between two waypoint times both flights move along straight
\* lines at constant velocity, the square of their distance is a convex
\* function of the time there, and so it is below the threshold throughout
\* exactly when it is at a, at b, and at every waypoint time in between.
BelowThroughout(self, f1, f2, a, b) ==
    \A t \in {a, b} \cup {u \in WaypointTimes(f1, f2) : RLe(a, u) /\ RLe(u, b)} :
        BelowAt(self, f1, f2, t)

\* The closed intervals as long as the step that start at a multiple of a
\* quarter of the step after t_start, and lie in the overlap window.
StepIntervals(f1, f2, step) ==
    {<<RAdd(overlap_start(f1, f2), RMul(Q(k), RDiv(step, Q(4)))),
       RAdd(overlap_start(f1, f2), RMul(Q(k + 4), RDiv(step, Q(4))))>> :
        k \in {j \in 0..(4 * RCeil(RDiv(RSub(overlap_end(f1, f2), overlap_start(f1, f2)),
                                        step))) :
                 RLe(RAdd(overlap_start(f1, f2), RMul(Q(j + 4), RDiv(step, Q(4)))),
                     overlap_end(f1, f2))}}

\* C28: when the weighted distance of a pair is below safety_distance at
\* every instant of a closed interval that lies in the overlap window and is
\* at least as long as the step chosen, the check of the pair gives a
\* conflict.
C28_NoMissedEncounter ==
    (Called(2) /\ LongWindow(The(inp).flights[1], The(inp).flights[2])) =>
        ((\E i \in StepIntervals(The(inp).flights[1], The(inp).flights[2], CallStep) :
              BelowThroughout(The(inp).detector, The(inp).flights[1],
                              The(inp).flights[2], i[1], i[2]))
            => Len(The(out)) = 1)

\* A pair that is not closer than safety_distance at either end of its
\* overlap window, and is closer throughout an interval as long as the step
\* in between, has given a conflict.
C28_Witness ==
    /\ Called(2)
    /\ LongWindow(The(inp).flights[1], The(inp).flights[2])
    /\ ~BelowAt(The(inp).detector, The(inp).flights[1], The(inp).flights[2],
                overlap_start(The(inp).flights[1], The(inp).flights[2]))
    /\ ~BelowAt(The(inp).detector, The(inp).flights[1], The(inp).flights[2],
                overlap_end(The(inp).flights[1], The(inp).flights[2]))
    /\ \E i \in StepIntervals(The(inp).flights[1], The(inp).flights[2], CallStep) :
           BelowThroughout(The(inp).detector, The(inp).flights[1],
                           The(inp).flights[2], i[1], i[2])
    /\ Len(The(out)) = 1

\* The sample times of the pair of the call at which both flights have a
\* position.
EvaluatedTimes ==
    {t \in PairTimes(The(inp).detector, The(inp).flights[1], The(inp).flights[2]) :
        BothFlying(The(inp).flights[1], The(inp).flights[2], t)}

\* C29: the conflict given for a pair (A, B) has for time a sample time of
\* the pair inside the overlap window, for position1 and position2 the
\* positions of A and of B at that time, for distance the weighted distance
\* of these two positions, which is below safety_distance and not above the
\* distance at any evaluated sample, and every evaluated sample before its
\* time is farther apart.
C29_ConsistentConflict ==
    (Called(2) /\ Len(The(out)) = 1) =>
        LET A == The(inp).flights[1]
            B == The(inp).flights[2]
            self == The(inp).detector
            c == The(out)[1]
        IN  /\ c.time \in EvaluatedTimes
            /\ RLe(overlap_start(A, B), c.time) /\ RLe(c.time, overlap_end(A, B))
            /\ c.uav1_id = A.uav_id /\ c.uav2_id = B.uav_id
            /\ Some(c.position1) = interpolate_position(A, c.time)
            /\ Some(c.position2) = interpolate_position(B, c.time)
            /\ RealEq(c.distance, weighted_distance(self, c.position1, c.position2))
            /\ RealLt(c.distance, Real(self.safety_distance))
            /\ \A t \in EvaluatedTimes :
                   /\ RLe(SquaredDistanceAt(self, A, B, c.time),
                          SquaredDistanceAt(self, A, B, t))
                   /\ RLt(t, c.time) =>
                          RLt(SquaredDistanceAt(self, A, B, c.time),
                              SquaredDistanceAt(self, A, B, t))

\* A conflict has been given for a pair that is as close as at the time of
\* the conflict at a later sample too, and farther apart at another one.
C29_Witness ==
    /\ Called(2)
    /\ Len(The(out)) = 1
    /\ \E t \in EvaluatedTimes :
           /\ RGt(t, The(out)[1].time)
           /\ SquaredDistanceAt(The(inp).detector, The(inp).flights[1],
                                The(inp).flights[2], t)
                 = SquaredDistanceAt(The(inp).detector, The(inp).flights[1],
                                     The(inp).flights[2], The(out)[1].time)
    /\ \E t \in EvaluatedTimes :
           RGt(SquaredDistanceAt(The(inp).detector, The(inp).flights[1],
                                 The(inp).flights[2], t),
               SquaredDistanceAt(The(inp).detector, The(inp).flights[1],
                                 The(inp).flights[2], The(out)[1].time))

(***************************************************************************)
(* The other queries of the detector, and the construction of a flight,    *)
(* each as a function of its arguments: the call is drawn by QueryInit and *)
(* made by the action of its name.                                         *)
(***************************************************************************)
\* Lists of up to MaxFlights drones hovering during [0, 2] at the origin, 6 m
\* from it or 10 m from it, each named A or B: two drones of a list may carry
\* the same identifier.
MaxFlights == 3
MatrixPlaces == {Origin, <<Q(6), Q(0), Q(0)>>, <<Q(0), Q(10), Q(0)>>}
MatrixFlights == {Flight(id, Hover(p, 0, 2)) : id \in {"A", "B"}, p \in MatrixPlaces}
MatrixLists == UNION {[1..n -> MatrixFlights] : n \in 0..MaxFlights}
MatrixCalls ==
    {[op |-> "get_conflict_matrix", self |-> default_detector, flights |-> fs] :
        fs \in MatrixLists}

\* Constructions of a flight from up to 3 waypoints, taken from two waypoints
\* in any order (so with times that decrease, too), with speeds and
\* priorities below, at and above the least ones allowed.
BuildWaypoints == {LineWaypoint(0, 0), LineWaypoint(1, 1)}
BuildRoutes == UNION {[1..n -> BuildWaypoints] : n \in 0..3}
BuildSpeeds == {Q(-1), Q(0), <<1, 2>>, Q(15)}
BuildPriorities == {-1, 0, 1, 2}
BuildCalls ==
    {[op |-> "FlightPlan", uav_id |-> "A", waypoints |-> wps, speed |-> v,
      priority |-> p] : wps \in BuildRoutes, v \in BuildSpeeds, p \in BuildPriorities}

\* Checks of a period that starts and ends at a whole second of 0..MaxTime,
\* for two drones of: one hovering at the origin during [0, MaxTime + 1], one
\* 6 m from it, one 10 m from it, one at the origin from the time 1 on only,
\* and one that hovers at the origin until the time 1 and is 20 m away at the
\* time 2.
Leaving ==
    <<Waypoint(Q(0), Q(0), Q(0), Q(0)), Waypoint(Q(0), Q(0), Q(0), Q(1)),
      Waypoint(Q(20), Q(0), Q(0), Q(2)), Waypoint(Q(20), Q(0), Q(0), Q(MaxTime + 1))>>
PeriodRoutes ==
    {Hover(p, 0, MaxTime + 1) : p \in MatrixPlaces}
        \cup {Hover(Origin, 1, MaxTime + 1), Leaving}
PeriodCalls ==
    {[op |-> "check_continuous_conflict", self |-> default_detector,
      flight1 |-> Flight("A", r1), flight2 |-> Flight("B", r2),
      start_time |-> Q(t1), end_time |-> Q(t2)] :
        r1 \in {Hover(Origin, 0, MaxTime + 1)}, r2 \in PeriodRoutes,
        t1 \in 0..MaxTime, t2 \in 0..MaxTime}

\* Predictions at a whole second of 0..MaxTime for two drones hovering at
\* the origin or 6 m from it, during any of the time spans, by the default
\* detector and by one that looks 1 s ahead.
short_window_detector ==
    ConflictDetector(Q(detector_safety_distance), Q(detector_time_step), Q(1), <<3, 2>>)
PredictRoutes == {Hover(p, w[1], w[2]) : p \in {Origin, <<Q(6), Q(0), Q(0)>>}, w \in Windows}
PredictCalls ==
    {[op |-> "predict_conflicts", self |-> d,
      flights |-> <<Flight("A", r1), Flight("B", r2)>>, current_time |-> Q(t)] :
        d \in {default_detector, short_window_detector},
        r1 \in PredictRoutes, r2 \in PredictRoutes, t \in 0..MaxTime}

\* Two calls of find_conflicts on two drones along the same routes with the
\* same identifiers: in the first call both carry the speed 1 and the
\* priority 1, in the second any of the speeds 1 and 6 and of the priorities
\* 1 and 2.  The routes are the two directions of the 8 m leg and hovering
\* at the origin or 6 m from it.
TwiceRoutes == {Eastward, Westward, Hover(Origin, 0, 2), Hover(<<Q(6), Q(0), Q(0)>>, 0, 2)}
TwiceSpeeds == {Q(1), Q(6)}
TwicePriorities == {1, 2}
TwiceCalls ==
    {[op |-> "find_conflicts", self |-> default_detector,
      flights |-> <<FlightPlan("A", r1, Q(1), 1), FlightPlan("B", r2, Q(1), 1)>>,
      others |-> <<FlightPlan("A", r1, v1, p1), FlightPlan("B", r2, v2, p2)>>] :
        r1 \in TwiceRoutes, r2 \in TwiceRoutes, v1 \in TwiceSpeeds, v2 \in TwiceSpeeds,
        p1 \in TwicePriorities, p2 \in TwicePriorities}

\* Calls of _get_effective_time_step by detectors with a time_step from half
\* a millisecond to 2 s, for two drones that hover or fly 4 m/s or 13 m/s,
\* with a nominal speed of 1 or 15, and for two drones that stay at the
\* origin for an instant with a nominal speed of 1e-7.
StepSizes == {<<1, 2000>>, <<1, 1000>>, <<1, 2>>, Q(1), Q(2)}
StepRoutes == {Hover(Origin, 0, 2), Eastward, Dash}
StepSpeeds == {Q(1), Q(15)}
StepFlights(id) == {FlightPlan(id, r, v, 1) : r \in StepRoutes, v \in StepSpeeds}
Still(id) == FlightPlan(id, Hover(Origin, 0, 0), <<1, 10000000>>, 1)
StepPairs ==
    {<<f1, f2>> : f1 \in StepFlights("A"), f2 \in StepFlights("B")}
        \cup {<<Still("A"), Still("B")>>}
StepCalls ==
    {[op |-> "_get_effective_time_step",
      self |-> ConflictDetector(Q(detector_safety_distance), h,
                                Q(detector_time_window), <<3, 2>>),
      flight1 |-> fs[1], flight2 |-> fs[2]] : h \in StepSizes, fs \in StepPairs}

QueryInit ==
    /\ service_unused
    /\ inp \in {Some(c) : c \in MatrixCalls \cup BuildCalls \cup PeriodCalls
                                    \cup PredictCalls \cup TwiceCalls \cup StepCalls}
    /\ out = None

\* The call drawn is a call of op, and has not been made.
Asked(op) == ~IsNone(inp) /\ The(inp).op = op /\ IsNone(out)

\* The call drawn is a call of op, and has returned.
Answered(op) == ~IsNone(inp) /\ The(inp).op = op /\ ~IsNone(out)

GetConflictMatrix ==
    /\ Asked("get_conflict_matrix")
    /\ out' = Some(get_conflict_matrix(The(inp).self, The(inp).flights))
    /\ UNCHANGED <<svc_vars, inp>>

Construct ==
    /\ Asked("FlightPlan")
    /\ out' = Some(FlightPlan(The(inp).uav_id, The(inp).waypoints, The(inp).speed,
                               The(inp).priority))
    /\ UNCHANGED <<svc_vars, inp>>

CheckContinuousConflict ==
    /\ Asked("check_continuous_conflict")
    /\ out' = Some(check_continuous_conflict(The(inp).self, The(inp).flight1,
                                              The(inp).flight2, The(inp).start_time,
                                              The(inp).end_time))
    /\ UNCHANGED <<svc_vars, inp>>

PredictConflicts ==
    /\ Asked("predict_conflicts")
    /\ out' = Some(predict_conflicts(The(inp).self, The(inp).flights,
                                      The(inp).current_time))
    /\ UNCHANGED <<svc_vars, inp>>

\* find_conflicts(flights), then find_conflicts(others).
FindConflictsTwice ==
    /\ Asked("find_conflicts")
    /\ out' = Some([first |-> find_conflicts(The(inp).self, The(inp).flights),
                    second |-> find_conflicts(The(inp).self, The(inp).others)])
    /\ UNCHANGED <<svc_vars, inp>>

GetEffectiveTimeStep ==
    /\ Asked("_get_effective_time_step")
    /\ out' = Some(get_effective_time_step(The(inp).self, The(inp).flight1,
                                            The(inp).flight2))
    /\ UNCHANGED <<svc_vars, inp>>

QueryNext ==
    \/ GetEffectiveTimeStep
    \/ GetConflictMatrix
    \/ Construct
    \/ CheckContinuousConflict
    \/ PredictConflicts
    \/ FindConflictsTwice

SpecQueries == QueryInit /\ [][QueryNext]_vars

(***************************************************************************)
(* Properties of the other queries and of construction                     *)
(***************************************************************************)
\* C15: for a list of n flights, whether or not two of them carry the same
\* identifier, get_conflict_matrix returns an n by n matrix of booleans that
\* is symmetric and false on its diagonal.
C15_MatrixShape ==
    Answered("get_conflict_matrix") =>
        LET n == Len(The(inp).flights)
            M == The(out)
        IN  /\ DOMAIN M = 1..n
            /\ \A i \in 1..n :
                   /\ DOMAIN M[i] = 1..n
                   /\ \A j \in 1..n : M[i][j] \in BOOLEAN /\ M[i][j] = M[j][i]
                   /\ M[i][i] = FALSE

\* C16: the construction of a flight raises an error, and gives no flight,
\* exactly when it is given fewer than 2 waypoints, or a speed of 0 or less,
\* or a priority below 1; otherwise it gives the flight with the fields it
\* was given.
C16_ConstructionErrors ==
    Answered("FlightPlan") =>
        /\ IsError(The(out)) <=>
               \/ Len(The(inp).waypoints) < 2
               \/ ~RGt(The(inp).speed, Q(0))
               \/ The(inp).priority <= 0
        /\ IsError(The(out)) => DOMAIN The(out) = {"error"}
        /\ ~IsError(The(out)) =>
               /\ The(out).uav_id = The(inp).uav_id
               /\ The(out).waypoints = The(inp).waypoints
               /\ The(out).speed = The(inp).speed
               /\ The(out).priority = The(inp).priority

\* A construction with two waypoints, priority 1 and speed 0 has raised an
\* error.
C16_Witness ==
    /\ Answered("FlightPlan")
    /\ Len(The(inp).waypoints) = 2
    /\ The(inp).priority = 1
    /\ The(inp).speed = Q(0)
    /\ IsError(The(out))

\* A construction with waypoint times that decrease, and speed and priority
\* allowed, has given a flight.
C16_WitnessSuccess ==
    /\ Answered("FlightPlan")
    /\ Len(The(inp).waypoints) = 2
    /\ RGt(The(inp).waypoints[1].time, The(inp).waypoints[2].time)
    /\ ~IsError(The(out))

\* The times start, start + step, start + 2 * step, ... up to and with end.
PeriodSamples(start, end, step) ==
    {t \in {RAdd(start, RMul(Q(k), step)) :
               k \in 0..(IF RLe(start, end) THEN RCeil(RDiv(RSub(end, start), step))
                          ELSE 0)} :
        RLe(t, end)}

\* C19: check_continuous_conflict(flight1, flight2, start_time, end_time)
\* returns True exactly when, at every time start_time + k * time_step of
\* the period [start_time, end_time], both flights are flying and their
\* weighted distance is below safety_distance.
C19_EverySample ==
    Answered("check_continuous_conflict") =>
        (The(out) = TRUE <=>
            \A t \in PeriodSamples(The(inp).start_time, The(inp).end_time,
                                    The(inp).self.time_step) :
                /\ BothFlying(The(inp).flight1, The(inp).flight2, t)
                /\ RLt(SquaredDistanceAt(The(inp).self, The(inp).flight1,
                                          The(inp).flight2, t),
                       SquaredSafety(The(inp).self)))

\* C20: every conflict predict_conflicts(flights, current_time) returns has
\* its time in the look-ahead window, from current_time to current_time +
\* time_window.
C20_InsideWindow ==
    Answered("predict_conflicts") =>
        \A k \in 1..Len(The(out)) :
            /\ RLe(The(inp).current_time, The(out)[k].time)
            /\ RLe(The(out)[k].time,
                   RAdd(The(inp).current_time, The(inp).self.time_window))

\* C21: two calls of find_conflicts on lists of flights that have the same
\* identifiers and the same waypoints, and differ in speed (above 0) or in
\* priority only, return the same conflicts.
C21_SpeedInformational ==
    Answered("find_conflicts") =>
        ((/\ Len(The(inp).flights) = Len(The(inp).others)
          /\ \A k \in 1..Len(The(inp).flights) :
                 /\ The(inp).flights[k].uav_id = The(inp).others[k].uav_id
                 /\ The(inp).flights[k].waypoints = The(inp).others[k].waypoints
                 /\ RGt(The(inp).flights[k].speed, Q(0))
                 /\ RGt(The(inp).others[k].speed, Q(0)))
            => The(out).first = The(out).second)

\* C24: for every detector with time_step > 0 and every pair of flights, the
\* effective step is at most time_step and at least a tenth of it, and is
\* time_step when the relative speed is 1e-6 or less.
C24_StepBounds ==
    (Answered("_get_effective_time_step") /\ RGt(The(inp).self.time_step, Q(0))) =>
        /\ RLe(The(out), The(inp).self.time_step)
        /\ RGe(The(out), RDiv(The(inp).self.time_step, Q(10)))
        /\ RLe(relative_speed_of(The(inp).flight1, The(inp).flight2), Eps)
              => The(out) = The(inp).self.time_step

====
